---------------------------- MODULE Spec2Model ----------------------------
(***************************************************************************)
(* State-machine model of the Dashboard Plugins API Hub.                   *)
(*                                                                         *)
(* src/src/index.ts mounts two routers: /auth (src/unnamed/part_001, the   *)
(* token exchange) and /math (src/src/routes/math.routes.ts, the standards *)
(* list, the standard by id and the practice-history mastery route, all    *)
(* behind router.use(authenticateToken)).  A request is a little process:  *)
(* its pc is the await point it is suspended at, its other fields are the  *)
(* handler's local variables.  Everything a handler does between two       *)
(* awaits is one action.                                                   *)
(*                                                                         *)
(* The two Supabase clients are external: what a query returns is chosen   *)
(* when the query returns.  The practice_history and questions_pool tables *)
(* are read-only for this program, so their content is fixed the first     *)
(* time it is read (or in Init) and every later read sees the same rows.   *)
(*                                                                         *)
(* mastery_percentage is kept in tenths of a percent, the integer          *)
(* Math.round produces before the division by 10; the doubles it is        *)
(* computed from are modelled bit for bit.  module_id and topic_id of a    *)
(* mastery record are copied through by the code and read by no property   *)
(* here; they are left out of the records.                                 *)
(***************************************************************************)
EXTENDS Integers, Sequences, FiniteSets, TLC

VARIABLES
    req,              \* request id -> the request's position and locals
    issued,           \* calls made on mathPluginSupabase: {<<request, table>>}
    identityCalls,    \* calls made on dashboardSupabase.auth.getUser
    minted,           \* payloads handed to generateToken
    practice_history, \* user id -> None (not read yet) or Some(rows)
    questions_pool    \* None (not read yet) or Some(set of rows)

vars == <<req, issued, identityCalls, minted, practice_history, questions_pool>>

---------------------------------------------------------------------------
(* Optional values: null/undefined is None, a present value v is Some(v).  *)

Null == "null"
None == <<>>
Some(v) == <<v>>

\* reduce((a, b) => a + b, 0), summed by halves to keep the recursion shallow.
RECURSIVE SumSeq(_)
SumSeq(s) ==
    IF s = <<>> THEN 0
    ELSE IF Len(s) = 1 THEN s[1]
    ELSE SumSeq(SubSeq(s, 1, Len(s) \div 2))
         + SumSeq(SubSeq(s, Len(s) \div 2 + 1, Len(s)))

\* Math.round(num / den) for integers num >= 0 and den > 0: floor(x + 0.5).
\* The quotient of two small integers is within half an ulp of the exact
\* value, which lies at a half or at least 1/(2 den) away from one, so the
\* exact computation and the double one agree.
MathRound(num, den) == (2 * num + den) \div (2 * den)

---------------------------------------------------------------------------
(* IEEE 754 double arithmetic, as far as mastery_percentage needs it.  A   *)
(* positive double is [m, e] and stands for m * 2^e, where the mantissa m, *)
(* 2^52 <= m < 2^53, is written in five limbs of 13 bits, least            *)
(* significant first (the fifth limb is 1); zero is [m |-> <<>>, e |-> 0]. *)
(* Every operation rounds to nearest, ties to even.                        *)

LimbBase == 2^13

DoubleZero == [m |-> <<>>, e |-> 0]

\* limbs + 1
RECURSIVE LimbsInc(_)
LimbsInc(limbs) ==
    IF limbs = <<>> THEN <<1>>
    ELSE IF Head(limbs) + 1 < LimbBase
         THEN <<Head(limbs) + 1>> \o Tail(limbs)
         ELSE <<0>> \o LimbsInc(Tail(limbs))

\* floor(limbs / 2), from the most significant limb down; carry is the bit
\* shifted out of the limb above.
RECURSIVE LimbsHalve(_, _)
LimbsHalve(limbs, carry) ==
    IF limbs = <<>> THEN <<>>
    ELSE LET top == limbs[Len(limbs)]
         IN Append(LimbsHalve(SubSeq(limbs, 1, Len(limbs) - 1), top % 2),
                   (carry * LimbBase + top) \div 2)

\* limbs * k + carry, for a small k.
RECURSIVE LimbsTimes(_, _, _)
LimbsTimes(limbs, k, carry) ==
    IF limbs = <<>> THEN <<>>
    ELSE IF Len(limbs) = 1 THEN <<Head(limbs) * k + carry>>
    ELSE LET v == Head(limbs) * k + carry
         IN <<v % LimbBase>> \o LimbsTimes(Tail(limbs), k, v \div LimbBase)

\* Brings a number of five limbs whose top limb is >= 1 (it may exceed one
\* bit) back to a mantissa: halves it until the top limb is 1, then rounds
\* on the bits shifted out.  guard is the last bit shifted out, sticky tells
\* whether any bit before it was set.
RECURSIVE Normalize(_, _, _, _)
Normalize(limbs, e, guard, sticky) ==
    IF limbs[Len(limbs)] > 1
    THEN Normalize(LimbsHalve(limbs, 0), e + 1, limbs[1] % 2, sticky \/ guard = 1)
    ELSE IF guard = 1 /\ (sticky \/ limbs[1] % 2 = 1)
         THEN LET up == LimbsInc(limbs)
              IN IF up[Len(up)] > 1
                 THEN [m |-> LimbsHalve(up, 0), e |-> e + 1]
                 ELSE [m |-> up, e |-> e]
         ELSE [m |-> limbs, e |-> e]

\* The doublings that bring c up to t <= c * 2^s < 2 t.
RECURSIVE ShiftUp(_, _, _)
ShiftUp(c, t, s) == IF c >= t THEN [c |-> c, s |-> s] ELSE ShiftUp(2 * c, t, s + 1)

\* Long division: n more limbs of the quotient, 13 bits at a time.
RECURSIVE QuotientLimbs(_, _, _, _)
QuotientLimbs(r, t, n, limbs) ==
    IF n = 0 THEN [limbs |-> limbs, r |-> r]
    ELSE QuotientLimbs((r * LimbBase) % t, t, n - 1,
                       <<(r * LimbBase) \div t>> \o limbs)

\* c / t for integers 0 <= c <= t, 0 < t < 2^17.
DoubleDivide(c, t) ==
    IF c = 0 THEN DoubleZero
    ELSE LET up == ShiftUp(c, t, 0)
             q == QuotientLimbs(up.c - t, t, 4, <<1>>)
             guard == IF 2 * q.r >= t THEN 1 ELSE 0
             sticky == (2 * q.r) % t # 0
         IN Normalize(q.limbs, -52 - up.s, guard, sticky)

\* x * k for a small integer k >= 1.
DoubleTimes(x, k) ==
    IF x.m = <<>> THEN DoubleZero
    ELSE Normalize(LimbsTimes(x.m, k, 0), x.e, 0, FALSE)

\* floor(limbs / 2^n)
RECURSIVE LimbsShiftRight(_, _)
LimbsShiftRight(limbs, n) ==
    IF limbs = <<>> \/ n = 0 THEN limbs
    ELSE IF n >= 13 THEN LimbsShiftRight(Tail(limbs), n - 13)
    ELSE LimbsShiftRight(LimbsHalve(limbs, 0), n - 1)

\* The value of at most two limbs.
LimbsValue(limbs) ==
    IF limbs = <<>> THEN 0
    ELSE IF Len(limbs) = 1 THEN limbs[1]
    ELSE limbs[1] + LimbBase * limbs[2]

\* Math.round(x) for a double 0 <= x < 2^12: floor(x + 0.5), computed as
\* (floor(2 x) + 1) div 2.
DoubleRound(x) ==
    IF x.m = <<>> THEN 0
    ELSE (LimbsValue(LimbsShiftRight(x.m, -(x.e + 1))) + 1) \div 2

---------------------------------------------------------------------------
(* Bounds and input domains.                                               *)

MaxAttempts == 2
MaxConcurrentAttempts == 1
MaxManyAttempts == 80
MaxStandards == 2
MaxHeaderLen == 4

Requests == {"r1", "r2"}

SeqsUpTo(S, n) == UNION {[1..k -> S] : k \in 0..n}

QuestionTypes == {"saved", "on_the_fly", "other"}
QuestionIds == {"q1", "q2"}
ResponseTimes == {None, Some(0), Some(500), Some(700)}

\* created_at strings and the instant new Date() parses each to (minutes of
\* 2024-03-01 UTC).  The first is the greatest as a string and the earliest
\* as an instant; the last two are one instant written two ways.
Timestamps ==
    {"2024-03-01T10:00:00+05:00", "2024-03-01T06:00:00+00:00", "2024-03-01T08:00:00+02:00"}

DateParse(s) ==
    CASE s = "2024-03-01T10:00:00+05:00" -> 300
      [] s = "2024-03-01T06:00:00+00:00" -> 360
      [] s = "2024-03-01T08:00:00+02:00" -> 360

Attempt(c, rt, ts, ty, q, rq) ==
    [correct |-> c, response_time_ms |-> rt, created_at |-> ts,
     question_type |-> ty, question_id |-> q, reference_question_id |-> rq]

\* Rows of practice_history: every way of naming a question, every outcome
\* (correct, response time) and every created_at.
ResolutionAttempts ==
    {Attempt(TRUE, Some(500), "2024-03-01T06:00:00+00:00", ty, q, rq) :
        ty \in QuestionTypes, q \in QuestionIds \cup {Null}, rq \in QuestionIds \cup {Null}}

OutcomeAttempts ==
    {Attempt(c, rt, "2024-03-01T06:00:00+00:00", "saved", "q1", Null) :
        c \in BOOLEAN, rt \in ResponseTimes}
    \cup {Attempt(TRUE, Some(500), ts, "saved", "q1", Null) : ts \in Timestamps}

Attempts == ResolutionAttempts \cup OutcomeAttempts

Histories == SeqsUpTo(Attempts, MaxAttempts)

ConcurrentAttempts ==
    {Attempt(TRUE, Some(500), "2024-03-01T10:00:00+05:00", "saved", "q1", Null),
     Attempt(FALSE, Some(700), "2024-03-01T06:00:00+00:00", "on_the_fly", Null, "q2"),
     Attempt(FALSE, None, "2024-03-01T08:00:00+02:00", "saved", "q2", Null)}

ConcurrentHistories == SeqsUpTo(ConcurrentAttempts, MaxConcurrentAttempts)

\* Long histories of one subject on one question: MaxManyAttempts attempts,
\* the first c of them correct.
ManyHistories ==
    {[i \in 1..MaxManyAttempts |->
        Attempt(i <= c, Some(500), "2024-03-01T06:00:00+00:00", "saved", "q1", Null)] :
            c \in 0..MaxManyAttempts}

\* Rows of questions_pool.  ny_standards_codes is an array column: it may be
\* null, empty, and may list a code twice.
Question(id, codes) == [id |-> id, ny_standards_codes |-> codes]

Catalogs ==
    {{Question("q1", Some(<<"A.1", "A.2">>))},
     {Question("q1", Some(<<"A.1", "A.1">>)), Question("q2", Some(<<"A.2">>))},
     {Question("q1", Some(<<"A.2">>)), Question("q2", None)},
     {Question("q1", Some(<<>>)), Question("q2", Some(<<"A.2", "A.1">>))}}

\* auth.admin.listUsers(): the users and their user_metadata.clever_id.
AuthUsers ==
    <<[id |-> "u1", clever_id |-> "c1"], [id |-> "u2", clever_id |-> "c2"]>>

UserIds == {AuthUsers[i].id : i \in DOMAIN AuthUsers}
CleverIds == {"c1", "c2", "c9"}

\* Rows of standards, and the ids present in modules and in topics: "m2" and
\* "t2" are referenced by standards and match no record.
Standard(id, m, t) == [id |-> id, module_id |-> m, topic_id |-> t]
StandardIds == <<"s1", "s2", "s3">>
ModuleIds == {"m1", "m2"}
TopicIds == {"t1", "t2"}
ModulesTable == {"m1"}
TopicsTable == {"t1"}

StandardsTables ==
    UNION {{[i \in 1..k |-> Standard(StandardIds[i], ms[i], ts[i])] :
                ms \in [1..k -> ModuleIds], ts \in [1..k -> TopicIds]} :
           k \in 0..MaxStandards}

\* Authorization headers: strings over a space and one other character, or
\* no header at all.
Chars == {" ", "x"}
AuthHeaders == {None} \cup {Some(h) : h \in SeqsUpTo(Chars, MaxHeaderLen)}

\* The users dashboardSupabase.auth.getUser can return; email may be absent.
IdentityUsers == {[id |-> "d1", email |-> "a@example.org"], [id |-> "d2", email |-> Null]}

---------------------------------------------------------------------------
(* GET /practice-history/:cleverId/mastery: the aggregation.               *)

\* JavaScript truthiness of an optional number and of an optional id.
TruthyNumber(o) == o # None /\ o[1] # 0
TruthyId(id) == id # Null

\* Mutant of FindUser: users[0] instead of the match.
FindUser_FirstUser(users, cleverId) ==
    IF users = <<>> THEN Null ELSE Head(users).id

\* usersData.users.find(user => user.user_metadata?.clever_id === cleverId)
RECURSIVE FindUser(_, _)
FindUser(users, cleverId) ==
    IF users = <<>> THEN Null
    ELSE IF Head(users).clever_id = cleverId THEN Head(users).id
    ELSE FindUser(Tail(users), cleverId)

SeqRange(s) == {s[i] : i \in DOMAIN s}

SavedQuestionIds(practiceHistory) ==
    {p.question_id : p \in {x \in SeqRange(practiceHistory) :
        x.question_type = "saved" /\ TruthyId(x.question_id)}}

ReferenceQuestionIds(practiceHistory) ==
    {p.reference_question_id : p \in {x \in SeqRange(practiceHistory) :
        x.question_type = "on_the_fly" /\ TruthyId(x.reference_question_id)}}

AllQuestionIds(practiceHistory) ==
    SavedQuestionIds(practiceHistory) \cup ReferenceQuestionIds(practiceHistory)

\* .from('questions_pool').select(...).in('id', allQuestionIds)
SelectQuestions(pool, ids) == {q \in pool : q.id \in ids}

\* new Map(questions.map(q => [q.id, q])), as the set of rows keyed by id.
QuestionsMapGet(questions, id) ==
    IF \E q \in questions : q.id = id
    THEN Some(CHOOSE q \in questions : q.id = id)
    ELSE None

PracticeQuestionId(practice) ==
    IF practice.question_type = "saved"
    THEN practice.question_id
    ELSE practice.reference_question_id

PracticeQuestion(practice, questions) ==
    IF TruthyId(PracticeQuestionId(practice))
    THEN QuestionsMapGet(questions, PracticeQuestionId(practice))
    ELSE None

\* The codes the forEach of one attempt walks: none when the question is
\* missing or its ny_standards_codes is null.
PracticeCodes(practice, questions) ==
    LET question == PracticeQuestion(practice, questions) IN
    IF question = None \/ question[1].ny_standards_codes = None
    THEN <<>>
    ELSE question[1].ny_standards_codes[1]

\* masteryMap is a JavaScript Map: its entries in insertion order.
MasteryHas(masteryMap, code) ==
    \E i \in DOMAIN masteryMap : masteryMap[i].standard_code = code

MasteryIndex(masteryMap, code) ==
    CHOOSE i \in DOMAIN masteryMap : masteryMap[i].standard_code = code

NewMastery(code, practice) ==
    [standard_code |-> code, total_attempts |-> 0, correct_count |-> 0,
     incorrect_count |-> 0, response_times |-> <<>>,
     last_attempted |-> practice.created_at]

\* Mutant of LaterThan: the comparison turned round.
LaterThan_Reversed(a, b) == DateParse(a) < DateParse(b)

LaterThan(a, b) == DateParse(a) > DateParse(b)

CountCorrect(mastery, practice) ==
    IF practice.correct
    THEN [mastery EXCEPT !.correct_count = @ + 1]
    ELSE [mastery EXCEPT !.incorrect_count = @ + 1]

PushResponseTime(mastery, practice) ==
    IF TruthyNumber(practice.response_time_ms)
    THEN [mastery EXCEPT !.response_times = Append(@, practice.response_time_ms[1])]
    ELSE mastery

TouchLastAttempted(mastery, practice) ==
    IF LaterThan(practice.created_at, mastery.last_attempted)
    THEN [mastery EXCEPT !.last_attempted = practice.created_at]
    ELSE mastery

UpdateMastery(mastery, practice) ==
    TouchLastAttempted(
        PushResponseTime(
            CountCorrect([mastery EXCEPT !.total_attempts = @ + 1], practice),
            practice),
        practice)

\* One turn of the inner forEach.
FoldCode(masteryMap, practice, code) ==
    LET m1 == IF MasteryHas(masteryMap, code)
              THEN masteryMap
              ELSE Append(masteryMap, NewMastery(code, practice))
        i == MasteryIndex(m1, code)
    IN [m1 EXCEPT ![i] = UpdateMastery(@, practice)]

\* question.ny_standards_codes.forEach(...).  (The test on the map changes
\* nothing: it makes TLC compute the map of this turn before the next one,
\* instead of nesting all the turns.)
RECURSIVE FoldCodes(_, _, _)
FoldCodes(masteryMap, practice, codes) ==
    IF codes = <<>> THEN masteryMap
    ELSE LET folded == FoldCode(masteryMap, practice, Head(codes))
         IN IF folded = <<>> THEN <<>>
            ELSE FoldCodes(folded, practice, Tail(codes))

\* practiceHistory.forEach(...)
RECURSIVE FoldPractice(_, _, _)
FoldPractice(masteryMap, practiceHistory, questions) ==
    IF practiceHistory = <<>> THEN masteryMap
    ELSE LET folded == FoldCodes(masteryMap, Head(practiceHistory),
                                 PracticeCodes(Head(practiceHistory), questions))
         IN IF folded = <<>>
            THEN FoldPractice(<<>>, Tail(practiceHistory), questions)
            ELSE FoldPractice(folded, Tail(practiceHistory), questions)

FinalizeMastery(mastery) ==
    [standard_code |-> mastery.standard_code,
     total_attempts |-> mastery.total_attempts,
     correct_count |-> mastery.correct_count,
     incorrect_count |-> mastery.incorrect_count,
     mastery_percentage_x10 |->
        IF mastery.total_attempts > 0
        THEN DoubleRound(DoubleTimes(DoubleTimes(
                DoubleDivide(mastery.correct_count, mastery.total_attempts), 100), 10))
        ELSE 0,
     avg_response_time_ms |->
        IF Len(mastery.response_times) > 0
        THEN Some(MathRound(SumSeq(mastery.response_times), Len(mastery.response_times)))
        ELSE None,
     last_attempted |-> mastery.last_attempted]

MasteryData(practiceHistory, questions) ==
    LET masteryMap == FoldPractice(<<>>, practiceHistory, questions)
    IN [i \in DOMAIN masteryMap |-> FinalizeMastery(masteryMap[i])]


---------------------------------------------------------------------------
(* Requests and responses.                                                 *)

Routes == {"token", "standards", "standard_by_id", "mastery"}

\* Mutant of ProtectedRoutes: the mastery route registered above router.use.
ProtectedRoutes_MasteryAboveGate == {"standards", "standard_by_id"}

\* router.use(authenticateToken) comes before every route of the math
\* router, so each of them runs behind the gate; /auth/token does not.
ProtectedRoutes == {"standards", "standard_by_id", "mastery"}

Outcomes == {"ok", "error", "throw"}

\* res.status(s).json(...): has_data tells whether the body has a data field.
Json(status, has_data, data, error, token) ==
    [status |-> status, has_data |-> has_data, data |-> data,
     error |-> error, token |-> token]

Success(data) == Json(200, TRUE, data, "", None)
Failure(status, error) == Json(status, FALSE, <<>>, error, None)

NoResponse == [state |-> "none", data |-> {}]

IdleRequest ==
    [pc |-> "idle", route |-> "none", tokenValid |-> FALSE, cleverId |-> Null,
     authHeader |-> None, usersResult |-> "none", userId |-> Null,
     practiceHistory |-> <<>>,
     masteryMap |-> <<>>, standards |-> <<>>, modulesResponse |-> NoResponse,
     topicsResponse |-> NoResponse, supabaseToken |-> None,
     getUserResult |-> "none", res |-> None]

Respond(r, body) ==
    req' = [req EXCEPT ![r].pc = "done", ![r].res = Some(body)]

Query(r, table) == issued' = issued \cup {<<r, table>>}

\* What a read of a table finds: what an earlier read found, or, at the first
\* read, any content the table can have.
TableContent(table, contents) == IF table = None THEN contents ELSE {table[1]}

Done(r) == req[r].pc = "done"
Status(r) == req[r].res[1].status

\* src/src/index.ts: app.use(`${API_PREFIX}/auth`, authRoutes),
\* app.use(`${API_PREFIX}/math`, mathRoutes).  The request's inputs are
\* chosen here; those its route does not read keep their defaults.
Arrive(r, route) ==
    /\ req[r].pc = "idle"
    /\ \E valid \in (IF route \in {"standards", "standard_by_id", "mastery"}
                     THEN BOOLEAN ELSE {FALSE}),
          cleverId \in (IF route = "mastery" THEN CleverIds ELSE {Null}),
          header \in (IF route = "token" THEN AuthHeaders ELSE {None}) :
            req' = [req EXCEPT ![r].pc = IF route \in ProtectedRoutes
                                         THEN "gate" ELSE "handler",
                               ![r].route = route,
                               ![r].tokenValid = valid,
                               ![r].cleverId = cleverId,
                               ![r].authHeader = header]
    /\ UNCHANGED <<issued, identityCalls, minted, practice_history, questions_pool>>

\* ../middleware/auth: a missing or invalid access token is answered 401,
\* anything else is passed on to the route's handler.
AuthenticateToken(r) ==
    /\ req[r].pc = "gate"
    /\ IF req[r].tokenValid
       THEN req' = [req EXCEPT ![r].pc = "handler"]
       ELSE Respond(r, Failure(401, "Access token required"))
    /\ UNCHANGED <<issued, identityCalls, minted, practice_history, questions_pool>>

---------------------------------------------------------------------------
(* GET /practice-history/:cleverId/mastery: the handler.                   *)

\* Mutant of NewMasteryMap: one module-level map, never cleared.
NewMasteryMap_Shared(r) ==
    LET others == {o \in DOMAIN req \ {r} : req[o].masteryMap # <<>>}
    IN IF others = {} THEN <<>> ELSE req[CHOOSE o \in others : TRUE].masteryMap

\* const masteryMap = new Map(): a fresh map in every request.
NewMasteryMap(r) == <<>>

MasteryStart(r) ==
    /\ req[r].pc = "handler" /\ req[r].route = "mastery"
    /\ Query(r, "auth.users")
    /\ req' = [req EXCEPT ![r].pc = "await_users"]
    /\ UNCHANGED <<identityCalls, minted, practice_history, questions_pool>>

ListUsersReturns(r, outcome) ==
    /\ req[r].pc = "await_users"
    /\ LET authUser == FindUser(AuthUsers, req[r].cleverId)
           answer(body) == req' = [req EXCEPT ![r].pc = "done",
                                              ![r].usersResult = outcome,
                                              ![r].res = Some(body)]
       IN
       CASE outcome = "throw" ->
              answer(Failure(500, "Internal server error")) /\ UNCHANGED issued
         [] outcome = "error" ->
              answer(Failure(500, "Failed to fetch users")) /\ UNCHANGED issued
         [] outcome = "ok" /\ authUser = Null ->
              answer(Failure(404, "User not found with this Clever ID"))
              /\ UNCHANGED issued
         [] outcome = "ok" /\ authUser # Null ->
              /\ req' = [req EXCEPT ![r].pc = "await_history",
                                    ![r].usersResult = outcome,
                                    ![r].userId = authUser]
              /\ Query(r, "practice_history")
    /\ UNCHANGED <<identityCalls, minted, practice_history, questions_pool>>

PracticeHistoryReturns(r, outcome) ==
    /\ req[r].pc = "await_history"
    /\ CASE outcome = "throw" ->
              /\ Respond(r, Failure(500, "Internal server error"))
              /\ UNCHANGED <<issued, practice_history>>
         [] outcome = "error" ->
              /\ Respond(r, Failure(500, "Failed to fetch practice history"))
              /\ UNCHANGED <<issued, practice_history>>
         [] outcome = "ok" ->
              \E rows \in TableContent(practice_history[req[r].userId], Histories) :
                /\ practice_history' =
                      [practice_history EXCEPT ![req[r].userId] = Some(rows)]
                /\ IF Len(rows) = 0
                   THEN Respond(r, Success(<<>>)) /\ UNCHANGED issued
                   ELSE /\ req' = [req EXCEPT ![r].pc = "await_questions",
                                              ![r].practiceHistory = rows]
                        /\ Query(r, "questions_pool")
    /\ UNCHANGED <<identityCalls, minted, questions_pool>>

QuestionsReturn(r, outcome) ==
    /\ req[r].pc = "await_questions"
    /\ CASE outcome = "throw" ->
              /\ Respond(r, Failure(500, "Internal server error"))
              /\ UNCHANGED questions_pool
         [] outcome = "error" ->
              /\ Respond(r, Failure(500, "Failed to fetch question data"))
              /\ UNCHANGED questions_pool
         [] outcome = "ok" ->
              \E pool \in TableContent(questions_pool, Catalogs) :
                /\ questions_pool' = Some(pool)
                /\ LET questions ==
                          SelectQuestions(pool, AllQuestionIds(req[r].practiceHistory))
                       masteryMap ==
                          FoldPractice(NewMasteryMap(r), req[r].practiceHistory, questions)
                       masteryData ==
                          [i \in DOMAIN masteryMap |-> FinalizeMastery(masteryMap[i])]
                   IN req' = [req EXCEPT ![r].pc = "done",
                                         ![r].masteryMap = masteryMap,
                                         ![r].res = Some(Success(masteryData))]
    /\ UNCHANGED <<issued, identityCalls, minted, practice_history>>

---------------------------------------------------------------------------
(* GET /standards and GET /standards/:id, with Relation Enrichment.        *)

ModuleIdsOf(standards) == {standards[i].module_id : i \in DOMAIN standards}
TopicIdsOf(standards) == {standards[i].topic_id : i \in DOMAIN standards}

\* What one relation lookup resolves to.  A Supabase query resolves to
\* {data, error}: "error" is a failed query (data null); "throw" is a
\* rejected promise.  The batched lookup .in('id', ids) returns the rows whose
\* id is listed.  The single lookup .eq('id', id).single() returns the row,
\* or, when no row matches, data null with a no-rows error ("no_rows").
LookupResponse(route, outcome, table, ids) ==
    CASE outcome = "throw" -> [state |-> "throw", data |-> {}]
      [] outcome = "error" -> [state |-> "error", data |-> {}]
      [] outcome = "ok" /\ route = "standards" ->
            [state |-> "ok", data |-> {x \in table : x \in ids}]
      [] outcome = "ok" /\ route = "standard_by_id" ->
            IF ids \subseteq table
            THEN [state |-> "ok", data |-> ids]
            ELSE [state |-> "no_rows", data |-> {}]

\* modulesMap.get(standard.module_id) || null, and moduleResponse.data || null:
\* a record is written as its id.
Related(response, id) == IF id \in response.data THEN id ELSE Null

Enriched(standard, modulesResponse, topicsResponse) ==
    [id |-> standard.id,
     module |-> Related(modulesResponse, standard.module_id),
     topic |-> Related(topicsResponse, standard.topic_id)]

StandardsStart(r) ==
    /\ req[r].pc = "handler" /\ req[r].route = "standards"
    /\ Query(r, "standards")
    /\ req' = [req EXCEPT ![r].pc = "await_standards"]
    /\ UNCHANGED <<identityCalls, minted, practice_history, questions_pool>>

\* Both lookups of Promise.all are dispatched in the same step.
DispatchLookups(r, standards) ==
    /\ req' = [req EXCEPT ![r].pc = "await_relations",
                          ![r].standards = standards,
                          ![r].modulesResponse = [state |-> "pending", data |-> {}],
                          ![r].topicsResponse = [state |-> "pending", data |-> {}]]
    /\ issued' = issued \cup {<<r, "modules">>, <<r, "topics">>}

StandardsReturn(r, outcome) ==
    /\ req[r].pc = "await_standards"
    /\ CASE outcome = "throw" ->
              Respond(r, Failure(500, "Internal server error")) /\ UNCHANGED issued
         [] outcome = "error" ->
              Respond(r, Failure(500, "Failed to fetch standards")) /\ UNCHANGED issued
         [] outcome = "ok" ->
              \E standards \in StandardsTables :
                IF Len(standards) = 0
                THEN Respond(r, Success(<<>>)) /\ UNCHANGED issued
                ELSE DispatchLookups(r, standards)
    /\ UNCHANGED <<identityCalls, minted, practice_history, questions_pool>>

StandardByIdStart(r) ==
    /\ req[r].pc = "handler" /\ req[r].route = "standard_by_id"
    /\ Query(r, "standards")
    /\ req' = [req EXCEPT ![r].pc = "await_standard"]
    /\ UNCHANGED <<identityCalls, minted, practice_history, questions_pool>>

\* .eq('id', id).single(): exactly one row, or an error.
StandardByIdReturn(r, outcome) ==
    /\ req[r].pc = "await_standard"
    /\ CASE outcome = "throw" ->
              Respond(r, Failure(500, "Internal server error")) /\ UNCHANGED issued
         [] outcome = "error" ->
              Respond(r, Failure(404, "Standard not found")) /\ UNCHANGED issued
         [] outcome = "ok" ->
              \E m \in ModuleIds, t \in TopicIds :
                DispatchLookups(r, <<Standard(StandardIds[1], m, t)>>)
    /\ UNCHANGED <<identityCalls, minted, practice_history, questions_pool>>

ModulesReturn(r, outcome) ==
    /\ req[r].pc = "await_relations"
    /\ req[r].modulesResponse.state = "pending"
    /\ req' = [req EXCEPT ![r].modulesResponse =
                  LookupResponse(req[r].route, outcome, ModulesTable,
                                 ModuleIdsOf(req[r].standards))]
    /\ UNCHANGED <<issued, identityCalls, minted, practice_history, questions_pool>>

TopicsReturn(r, outcome) ==
    /\ req[r].pc = "await_relations"
    /\ req[r].topicsResponse.state = "pending"
    /\ req' = [req EXCEPT ![r].topicsResponse =
                  LookupResponse(req[r].route, outcome, TopicsTable,
                                 TopicIdsOf(req[r].standards))]
    /\ UNCHANGED <<issued, identityCalls, minted, practice_history, questions_pool>>

\* await Promise.all([...]) resumes once both lookups have resolved, or as
\* soon as one has rejected (then in the catch block).
RelationsJoin(r) ==
    /\ req[r].pc = "await_relations"
    /\ LET mr == req[r].modulesResponse
           tr == req[r].topicsResponse
       IN \/ /\ "throw" \in {mr.state, tr.state}
             /\ Respond(r, Failure(500, "Internal server error"))
          \/ /\ mr.state \in {"ok", "error", "no_rows"}
             /\ tr.state \in {"ok", "error", "no_rows"}
             /\ Respond(r, Success([i \in DOMAIN req[r].standards |->
                                      Enriched(req[r].standards[i], mr, tr)]))
    /\ UNCHANGED <<issued, identityCalls, minted, practice_history, questions_pool>>

---------------------------------------------------------------------------
(* POST /auth/token.                                                       *)

\* String.prototype.split(' '): the pieces between single spaces.
RECURSIVE SplitSpace(_, _)
SplitSpace(str, piece) ==
    IF str = <<>> THEN <<piece>>
    ELSE IF Head(str) = " " THEN <<piece>> \o SplitSpace(Tail(str), <<>>)
    ELSE SplitSpace(Tail(str), Append(piece, Head(str)))

\* Mutant of SupabaseToken: split(' ')[0].
SupabaseToken_FirstPiece(authHeader) ==
    IF authHeader = None THEN None
    ELSE IF authHeader[1] = <<>> THEN Some(<<>>)
    ELSE Some(SplitSpace(authHeader[1], <<>>)[1])

\* authHeader && authHeader.split(' ')[1]
SupabaseToken(authHeader) ==
    IF authHeader = None THEN None
    ELSE IF authHeader[1] = <<>> THEN Some(<<>>)
    ELSE LET pieces == SplitSpace(authHeader[1], <<>>)
         IN IF Len(pieces) >= 2 THEN Some(pieces[2]) ELSE None

TruthyString(o) == o # None /\ o[1] # <<>>

\* ../utils/jwt: the signed token, written as the payload it carries.
GenerateToken(payload) == [signed |-> payload]

TokenStart(r) ==
    /\ req[r].pc = "handler" /\ req[r].route = "token"
    /\ LET supabaseToken == SupabaseToken(req[r].authHeader) IN
       IF ~TruthyString(supabaseToken)
       THEN /\ Respond(r, Failure(401, "Supabase token required"))
            /\ UNCHANGED identityCalls
       ELSE /\ req' = [req EXCEPT ![r].pc = "await_getUser",
                                  ![r].supabaseToken = supabaseToken]
            /\ identityCalls' = identityCalls \cup {<<r, supabaseToken[1]>>}
    /\ UNCHANGED <<issued, minted, practice_history, questions_pool>>

\* getUser resolves to {data: {user}, error}: a user, an error, or neither;
\* or the call rejects.
GetUserReturns(r, outcome) ==
    /\ req[r].pc = "await_getUser"
    /\ CASE outcome = "throw" ->
              /\ req' = [req EXCEPT ![r].pc = "done", ![r].getUserResult = outcome,
                            ![r].res = Some(Failure(500, "Internal server error"))]
              /\ UNCHANGED minted
         [] outcome \in {"error", "no_user"} ->
              /\ req' = [req EXCEPT ![r].pc = "done", ![r].getUserResult = outcome,
                            ![r].res = Some(Failure(401, "Invalid Supabase token"))]
              /\ UNCHANGED minted
         [] outcome = "user" ->
              \E user \in IdentityUsers :
                LET payload == [userId |-> user.id,
                                email |-> IF user.email = Null THEN "" ELSE user.email]
                    body == [token |-> GenerateToken(payload), expiresIn |-> "24h",
                             user |-> user]
                IN /\ minted' = minted \cup {<<r, payload>>}
                   /\ req' = [req EXCEPT ![r].pc = "done", ![r].getUserResult = outcome,
                                 ![r].res = Some(Json(200, FALSE, <<>>, "", Some(body)))]
    /\ UNCHANGED <<issued, identityCalls, practice_history, questions_pool>>

GetUserOutcomes == {"user", "error", "no_user", "throw"}

---------------------------------------------------------------------------
(* Specifications.                                                         *)

Init ==
    /\ req = [r \in {"r1"} |-> IdleRequest]
    /\ issued = {}
    /\ identityCalls = {}
    /\ minted = {}
    /\ practice_history = [u \in UserIds |-> None]
    /\ questions_pool = None

Next ==
    \/ \E r \in DOMAIN req, route \in Routes : Arrive(r, route)
    \/ \E r \in DOMAIN req : AuthenticateToken(r)
    \/ \E r \in DOMAIN req : MasteryStart(r)
    \/ \E r \in DOMAIN req, outcome \in Outcomes : ListUsersReturns(r, outcome)
    \/ \E r \in DOMAIN req, outcome \in Outcomes : PracticeHistoryReturns(r, outcome)
    \/ \E r \in DOMAIN req, outcome \in Outcomes : QuestionsReturn(r, outcome)
    \/ \E r \in DOMAIN req : StandardsStart(r)
    \/ \E r \in DOMAIN req, outcome \in Outcomes : StandardsReturn(r, outcome)
    \/ \E r \in DOMAIN req : StandardByIdStart(r)
    \/ \E r \in DOMAIN req, outcome \in Outcomes : StandardByIdReturn(r, outcome)
    \/ \E r \in DOMAIN req, outcome \in Outcomes : ModulesReturn(r, outcome)
    \/ \E r \in DOMAIN req, outcome \in Outcomes : TopicsReturn(r, outcome)
    \/ \E r \in DOMAIN req : RelationsJoin(r)
    \/ \E r \in DOMAIN req : TokenStart(r)
    \/ \E r \in DOMAIN req, outcome \in GetUserOutcomes : GetUserReturns(r, outcome)

Spec == Init /\ [][Next]_vars

\* Two mastery requests in flight over one content of the tables.
InitConcurrent ==
    /\ req = [r \in Requests |-> IdleRequest]
    /\ issued = {}
    /\ identityCalls = {}
    /\ minted = {}
    /\ practice_history \in [UserIds -> {Some(h) : h \in ConcurrentHistories}]
    /\ questions_pool \in {Some(pool) : pool \in Catalogs}

NextConcurrent ==
    \/ \E r \in DOMAIN req : Arrive(r, "mastery")
    \/ \E r \in DOMAIN req : AuthenticateToken(r)
    \/ \E r \in DOMAIN req : MasteryStart(r)
    \/ \E r \in DOMAIN req, outcome \in Outcomes : ListUsersReturns(r, outcome)
    \/ \E r \in DOMAIN req, outcome \in Outcomes : PracticeHistoryReturns(r, outcome)
    \/ \E r \in DOMAIN req, outcome \in Outcomes : QuestionsReturn(r, outcome)

SpecConcurrent == InitConcurrent /\ [][NextConcurrent]_vars

\* One mastery request of a subject with a long practice history.
InitManyAttempts ==
    /\ req = [r \in {"r1"} |-> IdleRequest]
    /\ issued = {}
    /\ identityCalls = {}
    /\ minted = {}
    /\ practice_history \in
          {[u \in UserIds |-> IF u = "u1" THEN Some(h) ELSE Some(<<>>)] : h \in ManyHistories}
    /\ questions_pool = None

SpecManyAttempts == InitManyAttempts /\ [][NextConcurrent]_vars

---------------------------------------------------------------------------
(* Properties.                                                             *)

MathRoutes == {"standards", "standard_by_id", "mastery"}

Body(r) == req[r].res[1]

\* A mastery request that went through the aggregation and answered 200.
Aggregated(r) ==
    /\ Done(r) /\ req[r].route = "mastery"
    /\ Body(r).status = 200
    /\ req[r].practiceHistory # <<>>

\* The rows the request's catalog query returned.
FetchedQuestions(r) ==
    SelectQuestions(questions_pool[1], AllQuestionIds(req[r].practiceHistory))

Occurrences(seq, x) == Cardinality({i \in DOMAIN seq : seq[i] = x})

RECURSIVE Repeat(_, _)
Repeat(x, n) == IF n = 0 THEN <<>> ELSE <<x>> \o Repeat(x, n - 1)

\* The attempts folded into a code's record, in order, one entry per turn of
\* the inner loop.
RECURSIVE Contributions(_, _, _)
Contributions(practiceHistory, questions, code) ==
    IF practiceHistory = <<>> THEN <<>>
    ELSE Repeat(Head(practiceHistory),
                Occurrences(PracticeCodes(Head(practiceHistory), questions), code))
         \o Contributions(Tail(practiceHistory), questions, code)

Instants(attempts) == {DateParse(attempts[i].created_at) : i \in DOMAIN attempts}
MaxOf(S) == CHOOSE x \in S : \A y \in S : y <= x

\* n is num/den rounded to the nearest integer, halves up (den > 0).
IsRounded(n, num, den) == 2 * n * den <= 2 * num + den /\ 2 * num + den < 2 * (n + 1) * den

\* C1 (as claimed): the total_attempts of the output records add up to the
\* number of DISTINCT standard codes of each attempt's resolved question,
\* summed over the attempts: an attempt counts once per distinct code, and
\* not at all when its question is not in the catalog.
C1_Conservation ==
    \A r \in DOMAIN req : Aggregated(r) =>
        LET h == req[r].practiceHistory
            data == Body(r).data
        IN SumSeq([i \in DOMAIN data |-> data[i].total_attempts])
           = SumSeq([i \in DOMAIN h |->
                        Cardinality(SeqRange(PracticeCodes(h[i], FetchedQuestions(r))))])

\* C2 (as claimed): avg_response_time_ms of a record is the rounded mean of
\* response_time_ms over all its contributing attempts that have one, a
\* response time of 0 included, and is absent only when none has one.
C2_AverageOverPresent ==
    \A r \in DOMAIN req : Aggregated(r) =>
        \A i \in DOMAIN Body(r).data :
            LET rec == Body(r).data[i]
                contrib == Contributions(req[r].practiceHistory, FetchedQuestions(r),
                                         rec.standard_code)
                present == SelectSeq(contrib, LAMBDA p : p.response_time_ms # None)
                total == SumSeq([k \in DOMAIN present |-> present[k].response_time_ms[1]])
            IN IF present = <<>>
               THEN rec.avg_response_time_ms = None
               ELSE /\ rec.avg_response_time_ms # None
                    /\ IsRounded(rec.avg_response_time_ms[1], total, Len(present))

\* C3: last_attempted of every output record is the created_at of one of its
\* contributing attempts, and its parsed instant is the greatest parsed
\* instant among them, in whatever order the attempts were folded.
C3_LastAttemptedIsMax ==
    \A r \in DOMAIN req : Aggregated(r) =>
        \A i \in DOMAIN Body(r).data :
            LET rec == Body(r).data[i]
                contrib == Contributions(req[r].practiceHistory, FetchedQuestions(r),
                                         rec.standard_code)
            IN /\ \E k \in DOMAIN contrib : contrib[k].created_at = rec.last_attempted
               /\ DateParse(rec.last_attempted) = MaxOf(Instants(contrib))

\* A record whose first contributing attempt is the greatest as a string and
\* not the latest as an instant: last_attempted moved off it.
C3_Witness ==
    \E r \in DOMAIN req : Aggregated(r) /\
        \E i \in DOMAIN Body(r).data :
            LET rec == Body(r).data[i]
                contrib == Contributions(req[r].practiceHistory, FetchedQuestions(r),
                                         rec.standard_code)
            IN /\ Len(contrib) >= 2
               /\ contrib[1].created_at = "2024-03-01T10:00:00+05:00"
               /\ rec.last_attempted = "2024-03-01T06:00:00+00:00"

\* C4 (as claimed): every output record has total_attempts >= 1, total_attempts =
\* correct_count + incorrect_count, and a mastery_percentage that is
\* correct_count / total_attempts * 1000 rounded to the nearest integer,
\* over 10, so between 0 and 100.
C4_RecordInvariant ==
    \A r \in DOMAIN req : (Done(r) /\ req[r].route = "mastery" /\ Body(r).status = 200) =>
        \A i \in DOMAIN Body(r).data :
            LET rec == Body(r).data[i] IN
            /\ rec.total_attempts >= 1
            /\ rec.correct_count >= 0 /\ rec.incorrect_count >= 0
            /\ rec.total_attempts = rec.correct_count + rec.incorrect_count
            /\ IsRounded(rec.mastery_percentage_x10, rec.correct_count * 1000,
                         rec.total_attempts)
            /\ rec.mastery_percentage_x10 >= 0 /\ rec.mastery_percentage_x10 <= 1000

\* C5: a request to a /math route whose access token is missing or invalid
\* never has a query issued for it, and is answered 401 with no data field;
\* queries are issued only for requests the gate has accepted.
C5_GateBeforeHandler ==
    \A r \in DOMAIN req : req[r].route \in MathRoutes =>
        /\ (\E t \in {"auth.users", "practice_history", "questions_pool",
                     "standards", "modules", "topics"} : <<r, t>> \in issued)
              => (req[r].tokenValid /\ req[r].pc \notin {"idle", "gate"})
        /\ (req[r].pc \notin {"idle", "gate"} /\ ~req[r].tokenValid)
              => (Done(r) /\ Body(r).status = 401 /\ ~Body(r).has_data)

\* An unauthenticated mastery request answered 401, nothing queried.
C5_Witness ==
    \E r \in DOMAIN req :
        /\ req[r].route = "mastery" /\ ~req[r].tokenValid /\ Done(r)
        /\ Body(r).status = 401
        /\ \A q \in issued : q[1] # r

NoUserMatches(cleverId) == \A i \in DOMAIN AuthUsers : AuthUsers[i].clever_id # cleverId

LookupFailed(r) == req[r].usersResult \in {"error", "throw"}
LookupUnmatched(r) == req[r].usersResult = "ok" /\ NoUserMatches(req[r].cleverId)

NothingAggregated(r) ==
    /\ <<r, "practice_history">> \notin issued
    /\ <<r, "questions_pool">> \notin issued
    /\ req[r].masteryMap = <<>>
    /\ req[r].practiceHistory = <<>>

\* C6 (as claimed): when the user lookup of a mastery request fails or
\* matches no user, the request is answered 404 and nothing of the
\* aggregation has happened.
C6_LookupFailureIs404 ==
    \A r \in DOMAIN req : (req[r].route = "mastery" /\ (LookupFailed(r) \/ LookupUnmatched(r))) =>
        /\ Done(r) /\ Body(r).status = 404
        /\ NothingAggregated(r)

\* C6 (amended): when the user lookup matches no user the answer is 404, when
\* the lookup itself fails the answer is 500; in both cases the request ends
\* there, with no practice-history query, no catalog query and no accumulator.
C6_LookupFailureStopsRequest ==
    \A r \in DOMAIN req : req[r].route = "mastery" =>
        /\ LookupUnmatched(r) =>
              (Done(r) /\ Body(r).status = 404 /\ ~Body(r).has_data /\ NothingAggregated(r))
        /\ LookupFailed(r) =>
              (Done(r) /\ Body(r).status = 500 /\ ~Body(r).has_data /\ NothingAggregated(r))

\* A mastery request whose user lookup failed, answered 500.
C6_Witness ==
    \E r \in DOMAIN req :
        /\ req[r].route = "mastery" /\ req[r].usersResult = "error"
        /\ Done(r) /\ Body(r).status = 500 /\ NothingAggregated(r)

\* What a mastery request for cleverId returns when it runs alone on the
\* tables' content.
AloneOutput(cleverId) ==
    LET rows == practice_history[FindUser(AuthUsers, cleverId)][1]
    IN MasteryData(rows, SelectQuestions(questions_pool[1], AllQuestionIds(rows)))

\* C7: whatever the interleaving of two mastery requests, each 200 answer is
\* the one the request would give running alone on the same tables, and two
\* requests for the same subject return the same set of records.
C7_RequestsIndependent ==
    /\ \A r \in DOMAIN req :
          (Done(r) /\ req[r].route = "mastery" /\ Body(r).status = 200)
              => Body(r).data = AloneOutput(req[r].cleverId)
    /\ \A r1, r2 \in DOMAIN req :
          (/\ Done(r1) /\ Done(r2)
           /\ req[r1].route = "mastery" /\ req[r2].route = "mastery"
           /\ Body(r1).status = 200 /\ Body(r2).status = 200
           /\ req[r1].cleverId = req[r2].cleverId)
              => SeqRange(Body(r1).data) = SeqRange(Body(r2).data)

\* One request has answered with its records while the other, asking for
\* another subject, is suspended on its catalog fetch with its own rows.
C7_Witness ==
    \E r1, r2 \in DOMAIN req :
        /\ r1 # r2
        /\ Aggregated(r1) /\ Body(r1).data # <<>>
        /\ req[r2].pc = "await_questions"
        /\ req[r2].cleverId # req[r1].cleverId
        /\ req[r2].practiceHistory # req[r1].practiceHistory

\* The header carries a credential: its first space is followed by a
\* character that is not a space.
CarriesCredential(authHeader) ==
    /\ authHeader # None
    /\ \E i \in DOMAIN authHeader[1] :
          /\ authHeader[1][i] = " "
          /\ \A j \in 1..(i - 1) : authHeader[1][j] # " "
          /\ i + 1 <= Len(authHeader[1])
          /\ authHeader[1][i + 1] # " "

\* C8: POST /auth/token answers 200 with a token only when the header
\* carries a credential and the identity service returned a user for it;
\* without a credential the answer is 401 and the identity service is not
\* called; an error or no user from the identity service gives 401; and no
\* 401 comes with a generated token.
C8_TokenOnlyForVerifiedUser ==
    \A r \in DOMAIN req : (req[r].route = "token" /\ Done(r)) =>
        /\ Body(r).status = 200 =>
              /\ Body(r).token # None
              /\ CarriesCredential(req[r].authHeader)
              /\ req[r].getUserResult = "user"
              /\ \E c \in identityCalls : c[1] = r
        /\ ~CarriesCredential(req[r].authHeader) =>
              /\ Body(r).status = 401
              /\ \A c \in identityCalls : c[1] # r
        /\ req[r].getUserResult \in {"error", "no_user"} => Body(r).status = 401
        /\ Body(r).status = 401 =>
              /\ Body(r).token = None
              /\ \A m \in minted : m[1] # r

\* A header of a lone scheme word and a space ("x "), answered 401 with the
\* identity service never called.
C8_Witness ==
    \E r \in DOMAIN req :
        /\ req[r].route = "token" /\ Done(r)
        /\ req[r].authHeader = Some(<<"x", " ">>)
        /\ Body(r).status = 401
        /\ identityCalls = {}

\* C9 (as claimed): only attempts of type saved (by question_id) and
\* on_the_fly (by reference_question_id) contribute; the output is the one
\* the attempts of these two types alone produce.
C9_OtherTypesContributeNothing ==
    \A r \in DOMAIN req : Aggregated(r) =>
        Body(r).data =
            MasteryData(SelectSeq(req[r].practiceHistory,
                                  LAMBDA p : p.question_type \in {"saved", "on_the_fly"}),
                        FetchedQuestions(r))

\* C10 (as claimed): a standards request whose module lookup or topic
\* lookup failed is never answered with a success payload.
C10_NoPartialEnrichment ==
    \A r \in DOMAIN req :
        (/\ req[r].route \in {"standards", "standard_by_id"}
         /\ Done(r)
         /\ "error" \in {req[r].modulesResponse.state, req[r].topicsResponse.state})
            => Body(r).status # 200

===========================================================================
